---- MODULE Spec2Model ----
(***************************************************************************)
(* Deployment orchestration of agent-hr: the persisted deployment state    *)
(* machine (backend/app/services/deployment_service.py), the container     *)
(* engine behind DockerService (backend/app/services/docker_service.py)    *)
(* and the bulk stop endpoint (backend/app/routers/deployments.py).        *)
(*                                                                         *)
(* The persisted table and the engine are shared by every server process.  *)
(* deploy(), stop() and stop_all_deployments() are coroutines that never   *)
(* await a pending future, so one server process runs one of them from     *)
(* start to end; calls of different server processes interleave at each    *)
(* database statement and each engine call.  Spec is that general program; *)
(* SpecSerial is the same program when calls do not overlap.               *)
(***************************************************************************)
EXTENDS Integers, Sequences, FiniteSets, TLC

\* ---------------------------------------------------------------- bounds
MaxDeployments == 2
NumAgents == 2
NumWorkers == 2

Agents == 1..NumAgents
Workers == 1..NumWorkers
DeploymentIds == 1..MaxDeployments
\* an agent id with no row in the agents table
UnknownAgent == 0

\* ------------------------------------------------- DeploymentStatus values
PENDING == "pending"
BUILDING == "building"
STARTING == "starting"
RUNNING == "running"
STOPPING == "stopping"
STOPPED == "stopped"
FAILED == "failed"

DeploymentStatus == {PENDING, BUILDING, STARTING, RUNNING, STOPPING, STOPPED, FAILED}

\* a nullable text / timestamp column holding NULL, and a nullable id / port
NULL == "null"
NONE == 0
\* the value of datetime.utcnow() (only its presence is modelled)
utcnow == "utcnow"
\* the engine assigns the host port; the port of container c is BasePort + c
BasePort == 32768

VARIABLES
    deployments,   \* the agent_deployments table: a sequence of rows, row d has id d
    containers,    \* the engine: container name/id -> "absent" | "running" | "exited"
    call,          \* per server process: the orchestrator call it is running
    last,          \* the call that ended most recently, with its response
    working_memory,  \* AgentRunner.working_memory of the running instance
    conversations,   \* AgentRunner.conversations: conversation id -> history
    response,        \* the last request served by the instance, and its answer
    streaming,       \* the turn AgentRunner.stream is in the middle of
    components,      \* the rows of the components table of one agent version
    compiled         \* the first and the latest result of build_config

\* the running instance: the server generated into the container
runtime == <<working_memory, conversations, response, streaming>>

\* the compiler: ConfigBuilder over the stored components
compiler == <<components, compiled>>

vars == <<deployments, containers, call, last, working_memory, conversations,
          response, streaming, components, compiled>>

\* ------------------------------------------------------------ AgentDeployment
AgentDeployment(agent_id) ==
    [agent_id |-> agent_id, status |-> PENDING, container_id |-> NONE,
     image_id |-> NONE, port |-> NONE, error_message |-> NULL,
     started_at |-> NULL, stopped_at |-> NULL]

RECURSIVE SortedSeq(_)
SortedSeq(S) ==
    IF S = {} THEN <<>>
    ELSE LET m == CHOOSE x \in S : \A y \in S : x <= y
         IN <<m>> \o SortedSeq(S \ {m})

\* the filter compares the status with the name of the enum member, not its
\* value: no row matches
RunningOfEnumName(agent_id) ==
    {d \in DOMAIN deployments :
        deployments[d].agent_id = agent_id /\ deployments[d].status = "RUNNING"}

\* rows of the agent that the RUNNING filter selects
RunningOf(agent_id) ==
    {d \in DOMAIN deployments :
        deployments[d].agent_id = agent_id /\ deployments[d].status = RUNNING}

AllRunning == {d \in DOMAIN deployments : deployments[d].status = RUNNING}

\* -------------------------------------------------------------- call frames
\* the result dictionary of get_status, before anything is copied into it
NoResult ==
    [status |-> NULL, port |-> NONE, started_at |-> NULL, stopped_at |-> NULL,
     error_message |-> NULL, container |-> NULL]

\* what session.post of chat_with_deployment came back with, before the
\* request is sent: a response with status and body text, or an exception
NoAnswer ==
    [kind |-> "none", status |-> 0, body |-> <<>>]

\* the two channels and the two forwarding tasks of websocket_chat, before
\* the session exists
NoSession ==
    [websocket |-> "none", inbox |-> <<>>, container_ws |-> "none",
     outbox |-> <<>>, forward_to_container |-> "none",
     forward_to_client |-> "none"]

IdleCall ==
    [op |-> "idle", pc |-> "idle", agent_id |-> UnknownAgent, dep |-> NONE,
     running_deployments |-> <<>>, idx |-> 0, cached |-> {},
     stopped_count |-> 0, failed_count |-> 0, errors |-> <<>>,
     adapter_calls |-> 0, outcome |-> "none", detail |-> NULL,
     overlapped |-> FALSE, not_found |-> FALSE, adapter_failed |-> {},
     result |-> NoResult, status_code |-> 0, network_calls |-> 0,
     ws |-> NoSession, answer |-> NoAnswer, body |-> <<>>]

Free(w) == call[w].pc = "idle"
InProgress(w) == ~Free(w)

\* AgentRunner.__init__: no conversation, nothing injected, nothing served
NoResponse ==
    [op |-> "none", name |-> NULL, content |-> NULL, entries |-> <<>>,
     replaced |-> FALSE, system |-> <<>>, conversation_id |-> NONE,
     message |-> NULL]

\* no turn of AgentRunner.stream is open
NoStream ==
    [open |-> FALSE, conversation_id |-> NONE, messages |-> <<>>,
     full_response |-> 0]

InitRuntime ==
    /\ working_memory = <<>>
    /\ conversations = [id \in {} |-> <<>>]
    /\ response = NoResponse
    /\ streaming = NoStream

\* no result of build_config yet
NoConfig ==
    [system_prompt |-> <<>>, tools |-> <<>>, memory |-> <<>>, skills |-> <<>>,
     model |-> NULL, raised |-> NULL]

NotCompiled == [first |-> NoConfig, latest |-> NoConfig, rows |-> <<>>]

\* a version without components, nothing compiled
InitCompiler ==
    /\ components = <<>>
    /\ compiled = NotCompiled

Init ==
    /\ deployments = <<>>
    /\ containers = [c \in DeploymentIds |-> "absent"]
    /\ call = [w \in Workers |-> IdleCall]
    /\ last = IdleCall
    /\ InitRuntime
    /\ InitCompiler


\* ------------------------------------------------------------ DockerService
\* Each operation is the set of ways the engine call can end:
\* [result, containers] with result "ok", "NotFound" or "APIError".

\* DockerService.stop_container: containers.get raises NotFound for a missing
\* container; container.stop either stops it or is rejected by the engine.
stop_container(container_id) ==
    IF containers[container_id] = "absent"
    THEN {[result |-> "NotFound", containers |-> containers]}
    ELSE {[result |-> "ok",
           containers |-> [containers EXCEPT ![container_id] = "exited"]],
          [result |-> "APIError", containers |-> containers]}

\* DockerService.remove_container: same lookup, then a forced removal.
remove_container(container_id) ==
    IF containers[container_id] = "absent"
    THEN {[result |-> "NotFound", containers |-> containers]}
    ELSE {[result |-> "ok",
           containers |-> [containers EXCEPT ![container_id] = "absent"]],
          [result |-> "APIError", containers |-> containers]}

\* DockerService.build_image: the image id, or the build is rejected.
build_image(agent_id) ==
    {[result |-> "ok", image_id |-> agent_id],
     [result |-> "APIError", image_id |-> NONE]}

\* DockerService.create_container, named after the deployment: any container
\* of that name is removed first; containers.run starts the new one or is
\* rejected; the port is read back after the start, and a missing port binding
\* raises with the container already started.
create_container(deployment_id) ==
    {[result |-> "ok",
      containers |-> [containers EXCEPT ![deployment_id] = "running"],
      container_id |-> deployment_id, port |-> BasePort + deployment_id],
     [result |-> "APIError",
      containers |-> [containers EXCEPT ![deployment_id] = "absent"],
      container_id |-> NONE, port |-> NONE],
     [result |-> "DockerException",
      containers |-> [containers EXCEPT ![deployment_id] = "running"],
      container_id |-> NONE, port |-> NONE]}

\* ConfigBuilder.build_config ends normally or raises on a stored component
\* it cannot read (a tool config that is no mapping, a memory without a name).
build_config == {"ok", "TypeError"}

\* ------------------------------------------------ control flow of the callers
Target(c) == IF c.op = "stop" THEN c.dep ELSE c.running_deployments[c.idx]

\* the call ends
Done(c, outcome, detail) ==
    [c EXCEPT !.pc = "done", !.outcome = outcome, !.detail = detail]

\* _stop_existing_deployments called without await: deploy() never runs the
\* loop and goes straight on to create its record
NextInLoopNotAwaited(c) ==
    IF c.op = "deploy"
    THEN [c EXCEPT !.pc = "create", !.not_found = FALSE]
    ELSE IF c.idx < Len(c.running_deployments)
         THEN [c EXCEPT !.idx = c.idx + 1, !.pc = "load", !.not_found = FALSE]
         ELSE Done([c EXCEPT !.not_found = FALSE], "returned", NULL)

\* the loop of _stop_existing_deployments or stop_all_deployments moves to the
\* next deployment; after the last one deploy() creates its record and
\* stop_all_deployments returns its summary
NextInLoop(c) ==
    IF c.idx < Len(c.running_deployments)
    THEN [c EXCEPT !.idx = c.idx + 1, !.pc = "load", !.not_found = FALSE]
    ELSE IF c.op = "deploy"
         THEN [c EXCEPT !.pc = "create", !.not_found = FALSE]
         ELSE Done([c EXCEPT !.not_found = FALSE], "returned", NULL)

\* stop() returned to its caller
StopReturned(c) ==
    IF c.op = "stop" THEN Done(c, "returned", NULL)
    ELSE IF c.op = "stopAll"
         THEN NextInLoop([c EXCEPT !.stopped_count = c.stopped_count + 1])
         ELSE NextInLoop(c)

\* stop_all_deployments without its try/except: the first failure ends the call
StopRaisedUncaught(c, exc, detail) ==
    IF c.op \in {"stop", "stopAll"} THEN Done(c, exc, detail)
    ELSE [c EXCEPT !.pc = "force"]

\* stop() raised exc to its caller: the stop endpoint passes it on, deploy()
\* goes on to force the status, stop_all_deployments records it and goes on
StopRaised(c, exc, detail) ==
    IF c.op = "stop" THEN Done(c, exc, detail)
    ELSE IF c.op = "stopAll"
         THEN NextInLoop([c EXCEPT
                 !.failed_count = c.failed_count + 1,
                 !.errors = Append(c.errors,
                     [deployment_id |-> Target(c), error |-> exc])])
         ELSE [c EXCEPT !.pc = "force"]

\* stop() without the check of line 124
StopCheckNoStatus(c) ==
    IF Target(c) \notin DOMAIN deployments
    THEN StopRaised(c, "ValueError", "not found")
    ELSE [c EXCEPT !.pc = "mark"]

\* stop(), lines 116-125: load the record and check it.  A record already
\* loaded in this session keeps the attributes it was loaded with.
StopCheck(c) ==
    LET t == Target(c) IN
    IF t \notin DOMAIN deployments
    THEN StopRaised(c, "ValueError", "not found")
    ELSE LET status == IF t \in c.cached THEN RUNNING ELSE deployments[t].status
         IN IF status # RUNNING
            THEN StopRaised(c, "ValueError", status)
            ELSE [c EXCEPT !.pc = "mark"]

\* stop() without `except NotFound`: NotFound leaves stop() like any error
AfterStopContainerNoCatch(c, result) ==
    IF result = "ok" THEN [c EXCEPT !.pc = "remove_container"]
    ELSE StopRaised(c, result, "stop_container")

\* what stop() does with the result of stop_container / remove_container:
\* NotFound is caught, any other engine error leaves stop()
AfterStopContainer(c, result) ==
    IF result = "ok" THEN [c EXCEPT !.pc = "remove_container"]
    ELSE IF result = "NotFound" THEN [c EXCEPT !.pc = "finish"]
    ELSE StopRaised(c, "APIError", "stop_container")

AfterRemoveContainer(c, result) ==
    IF result \in {"ok", "NotFound"} THEN [c EXCEPT !.pc = "finish"]
    ELSE StopRaised(c, "APIError", "remove_container")

\* ------------------------------------------------------------------ actions
\* the call of w goes on as c, or has ended as c: then w is free again
Settle(w, c, calls) ==
    /\ IF c.pc = "done"
       THEN /\ call' = [calls EXCEPT ![w] = IdleCall]
            /\ last' = c
       ELSE /\ call' = [calls EXCEPT ![w] = c]
            /\ UNCHANGED last
    /\ UNCHANGED <<runtime, compiler>>

SetCall(w, c) == Settle(w, c, call)

\* records that deploy() calls in progress have still to create
Unborn == Cardinality({v \in Workers :
              InProgress(v) /\ call[v].op = "deploy" /\ call[v].dep = NONE})

\* deploy(agent_id), lines 47-53 and 239-246: the agent check and the query of
\* the agent's RUNNING deployments
DeployStart(w, agent_id) ==
    /\ Free(w)
    /\ agent_id \in Agents => Len(deployments) + Unborn < MaxDeployments
    /\ LET others == {v \in Workers \ {w} :
                        /\ InProgress(v)
                        /\ call[v].op = "deploy"
                        /\ call[v].agent_id = agent_id}
           c0 == [IdleCall EXCEPT !.op = "deploy", !.agent_id = agent_id]
           c1 == IF agent_id \notin Agents
                 THEN Done(c0, "ValueError", "agent not found")
                 ELSE NextInLoop([c0 EXCEPT
                         !.running_deployments = SortedSeq(RunningOf(agent_id)),
                         !.cached = RunningOf(agent_id),
                         !.overlapped = (others # {})])
       IN Settle(w, c1, [v \in Workers |->
                             IF v \in others
                             THEN [call[v] EXCEPT !.overlapped = TRUE]
                             ELSE call[v]])
    /\ UNCHANGED <<deployments, containers>>

\* the stop endpoint: stop(deployment_id), lines 116-125
StopStart(w, deployment_id) ==
    /\ Free(w)
    /\ SetCall(w, StopCheck([IdleCall EXCEPT !.op = "stop", !.dep = deployment_id]))
    /\ UNCHANGED <<deployments, containers>>

\* stop_all_deployments, lines 226-233: the query of all RUNNING deployments
StopAllStart(w) ==
    /\ Free(w)
    /\ SetCall(w, NextInLoop([IdleCall EXCEPT
                     !.op = "stopAll",
                     !.running_deployments = SortedSeq(AllRunning),
                     !.cached = AllRunning]))
    /\ UNCHANGED <<deployments, containers>>

\* stop() called from a loop, lines 116-125
StopLoad(w) ==
    /\ call[w].pc = "load"
    /\ SetCall(w, StopCheck(call[w]))
    /\ UNCHANGED <<deployments, containers>>

\* _update_status without its commit: the write never reaches the table
update_status_uncommitted(d, status) == deployments

\* _update_status: the status is written and committed, whatever it was; the
\* commit expires every record loaded in the session
update_status(d, status) == [deployments EXCEPT ![d].status = status]

\* stop(), line 127
StopMark(w) ==
    LET c == call[w]
        t == Target(c)
    IN /\ c.pc = "mark"
       /\ deployments' = update_status(t, STOPPING)
       /\ SetCall(w, [c EXCEPT
                        !.cached = {},
                        !.pc = IF deployments[t].container_id # NONE
                               THEN "stop_container" ELSE "finish"])
       /\ UNCHANGED containers

\* the engine call made, with what it reported
Called(c, result) ==
    [c EXCEPT !.adapter_calls = c.adapter_calls + 1,
              !.not_found = c.not_found \/ (result = "NotFound"),
              !.adapter_failed = IF result = "APIError"
                                 THEN c.adapter_failed \cup {Target(c)}
                                 ELSE c.adapter_failed]

\* stop(), line 131
StopContainer(w) ==
    LET c == call[w] IN
    /\ c.pc = "stop_container"
    /\ \E r \in stop_container(deployments[Target(c)].container_id) :
         /\ containers' = r.containers
         /\ SetCall(w, AfterStopContainer(Called(c, r.result), r.result))
    /\ UNCHANGED deployments

\* stop(), line 132
RemoveContainer(w) ==
    LET c == call[w] IN
    /\ c.pc = "remove_container"
    /\ \E r \in remove_container(deployments[Target(c)].container_id) :
         /\ containers' = r.containers
         /\ SetCall(w, AfterRemoveContainer(Called(c, r.result), r.result))
    /\ UNCHANGED deployments

\* the status written without the time of line 138
StoppedWithoutTime(d) ==
    [deployments EXCEPT ![d].status = STOPPED]

\* the record written as stopped (stop() lines 137-139, and lines 253-255)
Stopped(d) ==
    [deployments EXCEPT ![d].status = STOPPED, ![d].stopped_at = utcnow]

\* stop(), lines 137-142
StopFinish(w) ==
    LET c == call[w] IN
    /\ c.pc = "finish"
    /\ deployments' = Stopped(Target(c))
    /\ SetCall(w, StopReturned(c))
    /\ UNCHANGED containers

\* _stop_existing_deployments, lines 251-255: stop() raised, the status is forced
ForceStopped(w) ==
    LET c == call[w] IN
    /\ c.pc = "force"
    /\ deployments' = Stopped(Target(c))
    /\ SetCall(w, NextInLoop([c EXCEPT !.cached = {}]))
    /\ UNCHANGED containers

\* deploy(), lines 55-64: the new record, persisted as pending
DeployCreate(w) ==
    LET c == call[w] IN
    /\ c.pc = "create"
    /\ deployments' = Append(deployments, AgentDeployment(c.agent_id))
    /\ SetCall(w, [c EXCEPT !.dep = Len(deployments) + 1,
                            !.cached = {}, !.pc = "building"])
    /\ UNCHANGED containers

\* deploy(), line 68
DeployBuilding(w) ==
    LET c == call[w] IN
    /\ c.pc = "building"
    /\ deployments' = update_status(c.dep, BUILDING)
    /\ SetCall(w, [c EXCEPT !.pc = "compile"])
    /\ UNCHANGED containers

\* the handler re-raises without marking the record
FailedNotMarked(d, e) == deployments

\* deploy(), lines 97-102: the record marked failed with str(e)
Failed(d, e) ==
    [deployments EXCEPT ![d].status = FAILED, ![d].error_message = e]

\* deploy(), line 69, and the handler of lines 97-102
DeployCompile(w) ==
    LET c == call[w] IN
    /\ c.pc = "compile"
    /\ \E r \in build_config :
         IF r = "ok"
         THEN /\ SetCall(w, [c EXCEPT !.pc = "build_image"])
              /\ UNCHANGED deployments
         ELSE /\ deployments' = Failed(c.dep, r)
              /\ SetCall(w, Done(c, r, "build_config"))
    /\ UNCHANGED containers

\* deploy(), lines 72-78, and the handler of lines 97-102
DeployBuildImage(w) ==
    LET c == call[w] IN
    /\ c.pc = "build_image"
    /\ \E r \in build_image(c.agent_id) :
         LET c1 == [c EXCEPT !.adapter_calls = c.adapter_calls + 1] IN
         IF r.result = "ok"
         THEN /\ deployments' = [deployments EXCEPT ![c.dep].image_id = r.image_id]
              /\ SetCall(w, [c1 EXCEPT !.pc = "starting"])
         ELSE /\ deployments' = Failed(c.dep, r.result)
              /\ SetCall(w, Done(c1, r.result, "build_image"))
    /\ UNCHANGED containers

\* deploy(), line 81
DeployStarting(w) ==
    LET c == call[w] IN
    /\ c.pc = "starting"
    /\ deployments' = update_status(c.dep, STARTING)
    /\ SetCall(w, [c EXCEPT !.pc = "create_container"])
    /\ UNCHANGED containers

\* deploy(), lines 82-95, and the handler of lines 97-102
DeployCreateContainer(w) ==
    LET c == call[w] IN
    /\ c.pc = "create_container"
    /\ \E r \in create_container(c.dep) :
         LET c1 == [c EXCEPT !.adapter_calls = c.adapter_calls + 1] IN
         /\ containers' = r.containers
         /\ IF r.result = "ok"
            THEN /\ deployments' = [deployments EXCEPT
                        ![c.dep].container_id = r.container_id,
                        ![c.dep].port = r.port,
                        ![c.dep].status = RUNNING,
                        ![c.dep].started_at = utcnow]
                 /\ SetCall(w, Done(c1, "returned", NULL))
            ELSE /\ deployments' = Failed(c.dep, r.result)
                 /\ SetCall(w, Done(c1, r.result, "create_container"))

\* the engine loses a container behind the orchestrator's back (removed by an
\* operator or by the daemon): what NotFound reports
ContainerRemoved(container_id) ==
    /\ containers[container_id] # "absent"
    /\ containers' = [containers EXCEPT ![container_id] = "absent"]
    /\ UNCHANGED <<deployments, call, last, runtime, compiler>>

\* a step of the call a server process is running
Step(w) ==
    \/ StopLoad(w)
    \/ StopMark(w)
    \/ StopContainer(w)
    \/ RemoveContainer(w)
    \/ StopFinish(w)
    \/ ForceStopped(w)
    \/ DeployCreate(w)
    \/ DeployBuilding(w)
    \/ DeployCompile(w)
    \/ DeployBuildImage(w)
    \/ DeployStarting(w)
    \/ DeployCreateContainer(w)

\* a request arrives at a server process that is free
Start(w) ==
    \/ \E agent_id \in Agents \cup {UnknownAgent} : DeployStart(w, agent_id)
    \/ \E deployment_id \in DeploymentIds : StopStart(w, deployment_id)
    \/ StopAllStart(w)

Next ==
    \/ \E w \in Workers : Start(w)
    \/ \E w \in Workers : Step(w)
    \/ \E container_id \in DeploymentIds : ContainerRemoved(container_id)

Spec == Init /\ [][Next]_vars

\* calls that do not overlap: a request is served only when no call is running
NoCallInProgress == \A w \in Workers : Free(w)

NextSerial ==
    \/ \E w \in Workers : NoCallInProgress /\ Start(w)
    \/ \E w \in Workers : Step(w)
    \/ \E container_id \in DeploymentIds : ContainerRemoved(container_id)

SpecSerial == Init /\ [][NextSerial]_vars

\* ------------------------------------------------------------ get_status
\* DockerService.get_container_status: containers.get raises NotFound for a
\* missing container; reload and the reads of attrs change nothing in the engine
get_container_status(container_id) ==
    IF containers[container_id] = "absent"
    THEN {[result |-> "NotFound", status |-> NULL]}
    ELSE {[result |-> "ok", status |-> containers[container_id]],
          [result |-> "APIError", status |-> NULL]}

\* get_status probing every deployment that has a container, whatever its status
ProbesAnyStatus(row) == row.container_id # NONE

\* get_status, line 177: the engine is asked only for a RUNNING deployment
\* that has a container
Probes(row) == row.container_id # NONE /\ row.status = RUNNING

\* get_status, lines 156-177: the record is loaded and copied into the result
GetStatusStart(w, deployment_id) ==
    /\ Free(w)
    /\ LET c0 == [IdleCall EXCEPT !.op = "getStatus", !.dep = deployment_id] IN
       IF deployment_id \notin DOMAIN deployments
       THEN SetCall(w, Done(c0, "ValueError", "not found"))
       ELSE LET row == deployments[deployment_id]
                c1 == [c0 EXCEPT !.result =
                         [status |-> row.status, port |-> row.port,
                          started_at |-> row.started_at,
                          stopped_at |-> row.stopped_at,
                          error_message |-> row.error_message,
                          container |-> NULL]]
            IN IF Probes(row)
               THEN SetCall(w, [c1 EXCEPT !.pc = "probe"])
               ELSE SetCall(w, Done(c1, "returned", NULL))
    /\ UNCHANGED <<deployments, containers>>

\* get_status, lines 178-184: the probe; NotFound is reported in the result,
\* any other engine error leaves get_status
GetStatusProbe(w) ==
    LET c == call[w] IN
    /\ c.pc = "probe"
    /\ \E r \in get_container_status(deployments[c.dep].container_id) :
         LET c1 == [c EXCEPT !.adapter_calls = c.adapter_calls + 1,
                             !.not_found = (r.result = "NotFound")] IN
         IF r.result = "ok"
         THEN SetCall(w, Done([c1 EXCEPT !.result.container = r.status],
                              "returned", NULL))
         ELSE IF r.result = "NotFound"
              THEN SetCall(w, Done([c1 EXCEPT !.result.container = "not_found"],
                                   "returned", NULL))
              ELSE SetCall(w, Done(c1, r.result, "get_container_status"))
    /\ UNCHANGED <<deployments, containers>>

\* the program with the status endpoint
NextStatus ==
    \/ Next
    \/ \E w \in Workers : \E deployment_id \in DeploymentIds :
          GetStatusStart(w, deployment_id)
    \/ \E w \in Workers : GetStatusProbe(w)

SpecStatus == Init /\ [][NextStatus]_vars

\* ------------------------------------------------------ chat_with_deployment
\* the checks without the one of line 283: only the port is required
ChatCheckNoStatus(row) ==
    IF row.port = NONE
    THEN [status_code |-> 500, detail |-> "Deployment has no assigned port"]
    ELSE [status_code |-> 200, detail |-> NULL]

\* chat_with_deployment, lines 283-290: the checks made on the loaded record
\* before any request is sent; status_code 200 stands for passing them
ChatCheck(row) ==
    IF row.status # RUNNING
    THEN [status_code |-> 400, detail |-> "Deployment is not running"]
    ELSE IF row.port = NONE
         THEN [status_code |-> 500, detail |-> "Deployment has no assigned port"]
         ELSE [status_code |-> 200, detail |-> NULL]

\* the responses a container gives to POST /chat: the answer of the runtime
\* server, a success status other than 200, and an error with its body
Responses ==
    {[kind |-> "response", status |-> 200, body |-> <<"answer">>],
     [kind |-> "response", status |-> 201, body |-> <<"answer">>],
     [kind |-> "response", status |-> 500, body |-> <<"boom">>]}

\* session.post to the container behind the port, lines 298-306: a response
\* with its status, a connection error, or the total timeout running out
post(port) ==
    IF containers[port - BasePort] = "running"
    THEN Responses \cup {[NoAnswer EXCEPT !.kind = "ClientError"],
                         [NoAnswer EXCEPT !.kind = "TimeoutError"]}
    ELSE {[NoAnswer EXCEPT !.kind = "ClientError"]}

\* HTTPException(status_code, detail) raised to the client
Raise(c, status_code, detail) ==
    [Done(c, "HTTPException", detail) EXCEPT !.status_code = status_code]

\* chat_with_deployment, lines 276-295
ChatStart(w, deployment_id) ==
    /\ Free(w)
    /\ LET c0 == [IdleCall EXCEPT !.op = "chat", !.dep = deployment_id] IN
       IF deployment_id \notin DOMAIN deployments
       THEN SetCall(w, Raise(c0, 404, "Deployment not found"))
       ELSE LET row == deployments[deployment_id]
                c1 == [c0 EXCEPT !.result.status = row.status,
                                 !.result.port = row.port]
                check == ChatCheck(row)
            IN IF check.status_code # 200
               THEN SetCall(w, Raise(c1, check.status_code, check.detail))
               ELSE SetCall(w, [c1 EXCEPT !.pc = "post"])
    /\ UNCHANGED <<deployments, containers>>

\* chat_with_deployment, line 307: the test that makes a response an error
AgentError(r) ==
    r.status # 200

\* chat_with_deployment, lines 297-323
ChatPost(w) ==
    LET c == call[w] IN
    /\ c.pc = "post"
    /\ \E r \in post(c.result.port) :
         LET c1 == [c EXCEPT !.network_calls = c.network_calls + 1,
                             !.answer = r] IN
         IF r.kind = "response"
         THEN IF AgentError(r)
              THEN SetCall(w, [Raise(c1, r.status, "Agent error")
                                 EXCEPT !.body = <<"Agent error: ">> \o r.body])
              ELSE SetCall(w, [Done(c1, "returned", NULL)
                                 EXCEPT !.body = r.body])
         ELSE IF r.kind = "ClientError"
              THEN SetCall(w, Raise(c1, 503, "Failed to connect to agent container"))
              ELSE SetCall(w, Done(c1, r.kind, "post"))
    /\ UNCHANGED <<deployments, containers>>

\* the program with the chat endpoint
NextChat ==
    \/ Next
    \/ \E w \in Workers : \E deployment_id \in DeploymentIds :
          ChatStart(w, deployment_id)
    \/ \E w \in Workers : ChatPost(w)

SpecChat == Init /\ [][NextChat]_vars

\* ------------------------------------------------------------ websocket_chat
MaxInbox == 1
MaxOutbox == 1

\* the table after one deploy() has returned, and after a second one has failed
Deployed ==
    <<[AgentDeployment(1) EXCEPT !.status = RUNNING, !.container_id = 1,
          !.image_id = 1, !.port = BasePort + 1, !.started_at = utcnow]>>

InitWs ==
    /\ deployments \in
          {Deployed,
           Append(Deployed, [AgentDeployment(1) EXCEPT
                                !.status = FAILED, !.error_message = "APIError"])}
    /\ containers = [c \in DeploymentIds |-> IF c = 1 THEN "running" ELSE "absent"]
    /\ call = [w \in Workers |-> IdleCall]
    /\ last = IdleCall
    /\ InitRuntime
    /\ InitCompiler

\* websocket.close(code) and return, lines 344, 348, 352, 394
WsClosed(c, code) ==
    [Done(c, "closed", NULL) EXCEPT !.status_code = code,
                                    !.ws.websocket = "closed"]

\* websocket_chat, lines 339-355: the checks, then the client is accepted
WsStart(w, deployment_id) ==
    /\ Free(w)
    /\ LET c == [IdleCall EXCEPT !.op = "ws", !.dep = deployment_id] IN
       IF deployment_id \notin DOMAIN deployments
       THEN SetCall(w, WsClosed(c, 4004))
       ELSE LET row == deployments[deployment_id] IN
            IF row.status # RUNNING THEN SetCall(w, WsClosed(c, 4000))
            ELSE IF row.port = NONE THEN SetCall(w, WsClosed(c, 4002))
            ELSE SetCall(w, [c EXCEPT !.pc = "ws_connect",
                                      !.result.port = row.port,
                                      !.ws.websocket = "open"])
    /\ UNCHANGED <<deployments, containers>>

\* websocket_chat, lines 362-364 and 386-396: the container side is connected
\* and both forwarding tasks are started, or the connection fails and the
\* client is closed with code 4003
WsConnect(w) ==
    LET c == call[w] IN
    /\ c.pc = "ws_connect"
    /\ \/ /\ containers[c.result.port - BasePort] = "running"
          /\ SetCall(w, [c EXCEPT !.pc = "gather",
                                  !.network_calls = c.network_calls + 1,
                                  !.ws.container_ws = "open",
                                  !.ws.forward_to_container = "receive_json",
                                  !.ws.forward_to_client = "next"])
       \/ SetCall(w, WsClosed([c EXCEPT !.network_calls = c.network_calls + 1],
                              4003))
    /\ UNCHANGED <<deployments, containers>>

\* forward_to_container, line 371: websocket.receive_json() returns a message,
\* raises on text that is no JSON, or raises WebSocketDisconnect
ForwardToContainerReceive(w) ==
    LET c == call[w] IN
    /\ c.pc = "gather"
    /\ c.ws.forward_to_container = "receive_json"
    /\ \/ /\ c.ws.inbox # <<>>
          /\ SetCall(w, [c EXCEPT
                !.ws.inbox = Tail(c.ws.inbox),
                !.ws.forward_to_container =
                    IF Head(c.ws.inbox) = "json" THEN "send_json" ELSE "raised"])
       \/ /\ c.ws.inbox = <<>>
          /\ c.ws.websocket = "closed"
          /\ SetCall(w, [c EXCEPT !.ws.forward_to_container = "close"])
    /\ UNCHANGED <<deployments, containers>>

\* forward_to_container, line 372: container_ws.send_json(data) sends, or
\* raises on a closed connection
ForwardToContainerSend(w) ==
    LET c == call[w] IN
    /\ c.pc = "gather"
    /\ c.ws.forward_to_container = "send_json"
    /\ SetCall(w, [c EXCEPT !.ws.forward_to_container =
                      IF c.ws.container_ws = "open" THEN "receive_json"
                      ELSE "raised"])
    /\ UNCHANGED <<deployments, containers>>

\* forward_to_container, lines 373-374: container_ws.close()
ForwardToContainerClose(w) ==
    LET c == call[w] IN
    /\ c.pc = "gather"
    /\ c.ws.forward_to_container = "close"
    /\ SetCall(w, [c EXCEPT !.ws.container_ws = "closed",
                            !.ws.forward_to_container = "done"])
    /\ UNCHANGED <<deployments, containers>>

\* forward_to_client, lines 377-384: the next message of container_ws is sent
\* on as text, an ERROR message breaks the loop, the end of the iteration and
\* any exception end the task
ForwardToClientNext(w) ==
    LET c == call[w] IN
    /\ c.pc = "gather"
    /\ c.ws.forward_to_client = "next"
    /\ \/ /\ c.ws.outbox # <<>>
          /\ SetCall(w, [c EXCEPT
                !.ws.outbox = Tail(c.ws.outbox),
                !.ws.forward_to_client =
                    IF Head(c.ws.outbox) = "TEXT" /\ c.ws.websocket = "open"
                    THEN "next" ELSE "done"])
       \/ /\ c.ws.outbox = <<>>
          /\ c.ws.container_ws = "closed"
          /\ SetCall(w, [c EXCEPT !.ws.forward_to_client = "done"])
    /\ UNCHANGED <<deployments, containers>>

\* asyncio.gather, lines 387-391: returns when both tasks have ended, with
\* their exceptions as results; the handler returns and its channels with
\* what they still held are dropped
WsGathered(w) ==
    LET c == call[w] IN
    /\ c.pc = "gather"
    /\ c.ws.forward_to_container \in {"done", "raised"}
    /\ c.ws.forward_to_client = "done"
    /\ SetCall(w, Done([c EXCEPT !.ws = [NoSession EXCEPT
                                     !.container_ws = "closed",
                                     !.forward_to_container =
                                         c.ws.forward_to_container,
                                     !.forward_to_client = "done"]],
                        "returned", NULL))
    /\ UNCHANGED <<deployments, containers>>

\* a step of the handler and of its two tasks
WsStep(w) ==
    \/ WsConnect(w)
    \/ ForwardToContainerReceive(w)
    \/ ForwardToContainerSend(w)
    \/ ForwardToContainerClose(w)
    \/ ForwardToClientNext(w)
    \/ WsGathered(w)

\* the client sends a text frame: JSON, or text that is no JSON
ClientSends(w, data) ==
    /\ call[w].pc = "gather"
    /\ call[w].ws.websocket = "open"
    /\ Len(call[w].ws.inbox) < MaxInbox
    /\ call' = [call EXCEPT ![w].ws.inbox = Append(@, data)]
    /\ UNCHANGED <<deployments, containers, last, runtime, compiler>>

\* the client disconnects
ClientDisconnects(w) ==
    /\ call[w].pc = "gather"
    /\ call[w].ws.websocket = "open"
    /\ call' = [call EXCEPT ![w].ws.websocket = "closed"]
    /\ UNCHANGED <<deployments, containers, last, runtime, compiler>>

\* the container sends a text frame
ContainerSends(w) ==
    /\ call[w].pc = "gather"
    /\ call[w].ws.container_ws = "open"
    /\ Len(call[w].ws.outbox) < MaxOutbox
    /\ call' = [call EXCEPT ![w].ws.outbox = Append(@, "TEXT")]
    /\ UNCHANGED <<deployments, containers, last, runtime, compiler>>

\* the container side closes the connection, or breaks the protocol: the
\* client of aiohttp then closes it and yields an ERROR message
ContainerCloses(w, error) ==
    /\ call[w].pc = "gather"
    /\ call[w].ws.container_ws = "open"
    /\ call' = [call EXCEPT
          ![w].ws.container_ws = "closed",
          ![w].ws.outbox = IF error /\ Len(@) < MaxOutbox
                           THEN Append(@, "ERROR") ELSE @]
    /\ UNCHANGED <<deployments, containers, last, runtime, compiler>>

NextWs ==
    \/ \E w \in Workers : \E deployment_id \in DeploymentIds :
          WsStart(w, deployment_id)
    \/ \E w \in Workers : WsStep(w)
    \/ \E w \in Workers : \E data \in {"json", "text"} : ClientSends(w, data)
    \/ \E w \in Workers : ClientDisconnects(w)
    \/ \E w \in Workers : ContainerSends(w)
    \/ \E w \in Workers : \E error \in BOOLEAN : ContainerCloses(w, error)
    \/ \E container_id \in DeploymentIds : ContainerRemoved(container_id)

\* the event loop runs every task that can go on; nothing makes the client or
\* the container send or close
SpecWs ==
    InitWs /\ [][NextWs]_vars /\ \A w \in Workers : WF_vars(WsStep(w))

\* ------------------------------------------------- one server process
\* The tasks of one event loop.  A task gives the loop up only where it awaits
\* a future that is pending: session.post in chat_with_deployment.  deploy(),
\* stop() and stop_all_deployments() await coroutines that call the database
\* and the engine directly, and get_status is a plain function: they hold the
\* loop from their first statement to their last.
Suspended(w) == call[w].pc = "post"

\* the loop can run task w: no other task is between two suspension points
LoopFree(w) == \A v \in Workers \ {w} : Free(v) \/ Suspended(v)

\* a request arrives and its handler starts
Request(w) ==
    \/ Start(w)
    \/ \E deployment_id \in DeploymentIds : GetStatusStart(w, deployment_id)
    \/ \E deployment_id \in DeploymentIds : ChatStart(w, deployment_id)

\* the handler of w goes on
Resume(w) ==
    \/ Step(w)
    \/ GetStatusProbe(w)
    \/ ChatPost(w)

NextLoop ==
    \/ \E w \in Workers : LoopFree(w) /\ Request(w)
    \/ \E w \in Workers : LoopFree(w) /\ Resume(w)
    \/ \E container_id \in DeploymentIds : ContainerRemoved(container_id)

SpecLoop == Init /\ [][NextLoop]_vars

\* ------------------------------------------------- the running instance
MaxTurns == 1
NumConversations == 2

\* names a request gives, names the endpoint makes up (injected_ and eight
\* hexadecimal digits of a random uuid), contents, conversations and messages
Names == {"a", "b"}
GeneratedNames == {"injected_0", "injected_1"}
Contents == {"x", "y"}
ConversationIds == 1..NumConversations
Messages == {"hello"}

\* the new entry appended without the removal of line 423
InjectedAppendOnly(wm, name, content) ==
    Append(wm, [name |-> name, content |-> content])

\* AgentRunner.inject_context, lines 423-424: any entry of that name is
\* removed and the new entry is appended
Injected(wm, name, content) ==
    Append(SelectSeq(wm, LAMBDA m : m.name # name),
           [name |-> name, content |-> content])

\* the histories left as they are
NotCleared(histories) == histories

\* self.conversations.clear(), lines 426 and 436: no conversation is left
Cleared(histories) == [id \in {} |-> <<>>]

\* the endpoint inject_context, lines 328-338, with AgentRunner.inject_context:
\* a request without a name, or with an empty one, gets a made-up name
InjectContext(name, content) ==
    /\ \E n \in (IF name \in {NULL, ""} THEN GeneratedNames ELSE {name}) :
         /\ working_memory' = Injected(working_memory, n, content)
         /\ response' = [op |-> "inject_context", name |-> n,
                         content |-> content, entries |-> working_memory',
                         replaced |-> (\E i \in DOMAIN working_memory :
                                          working_memory[i].name = n),
                         system |-> <<>>, conversation_id |-> NONE,
                         message |-> NULL]
    /\ conversations' = Cleared(conversations)
    /\ UNCHANGED <<deployments, containers, call, last, streaming, compiler>>

\* the endpoint clear_working_memory, lines 341-349, with
\* AgentRunner.clear_working_memory
ClearWorkingMemory ==
    /\ working_memory' = <<>>
    /\ conversations' = Cleared(conversations)
    /\ response' = [NoResponse EXCEPT !.op = "clear_working_memory"]
    /\ UNCHANGED <<deployments, containers, call, last, streaming, compiler>>

\* the endpoint get_working_memory, lines 317-325
GetWorkingMemory ==
    /\ response' = [NoResponse EXCEPT !.op = "get_working_memory",
                                      !.entries = working_memory]
    /\ UNCHANGED <<deployments, containers, call, last, working_memory,
                   conversations, streaming, compiler>>

\* the system prompt of agent.json, and the heading put before the entries
BasePrompt == "system_prompt"
WorkingMemoryHeading == "## Working Memory (Injected Context)"

RECURSIVE MemoryContext(_)
MemoryContext(wm) ==
    IF wm = <<>> THEN <<>>
    ELSE <<Head(wm).name, Head(wm).content>> \o MemoryContext(Tail(wm))

\* the prompt of the configuration alone, whatever was injected
AgentRunner_build_system_prompt_base(wm) ==
    <<BasePrompt>>

\* AgentRunner._build_system_prompt, lines 438-450: the base prompt alone
\* when nothing is injected; else the heading and, for each entry in order,
\* its name as a title and its content
AgentRunner_build_system_prompt(wm) ==
    IF wm = <<>>
    THEN <<BasePrompt>>
    ELSE <<BasePrompt, WorkingMemoryHeading>> \o MemoryContext(wm)

\* AgentRunner.chat, lines 462-480: the history of the conversation with the
\* new message is sent with the system prompt built from the working memory;
\* the history is stored only when the model has answered
RuntimeChat(conversation_id, message) ==
    LET history == IF conversation_id \in DOMAIN conversations
                   THEN conversations[conversation_id] ELSE <<>>
        messages == Append(history, [role |-> "user", content |-> message])
    IN /\ Len(history) < 2 * MaxTurns
       /\ \E answered \in BOOLEAN :
            /\ conversations' =
                 IF answered
                 THEN [id \in DOMAIN conversations \cup {conversation_id} |->
                         IF id = conversation_id
                         THEN Append(messages, [role |-> "assistant",
                                                content |-> "answer"])
                         ELSE conversations[id]]
                 ELSE conversations
            /\ response' = [NoResponse EXCEPT
                              !.op = "chat",
                              !.conversation_id = conversation_id,
                              !.message = message,
                              !.content = IF answered THEN "answer" ELSE "error",
                              !.entries = working_memory,
                              !.system = AgentRunner_build_system_prompt(working_memory)]
       /\ UNCHANGED <<deployments, containers, call, last, working_memory,
                      streaming, compiler>>

\* the texts the model streams for one answer, and full_response after the
\* first n of them
text_stream == <<"ans", "wer">>
FullResponse(n) ==
    IF n = 0 THEN "" ELSE IF n = 1 THEN "ans" ELSE "answer"

\* AgentRunner.stream, lines 492-502, up to the first text: history and
\* messages are taken and the stream is opened with the system prompt built
\* from the working memory; opening it can fail
StreamStart(conversation_id, message) ==
    LET history == IF conversation_id \in DOMAIN conversations
                   THEN conversations[conversation_id] ELSE <<>>
        messages == Append(history, [role |-> "user", content |-> message])
    IN /\ ~streaming.open
       /\ Len(history) < 2 * MaxTurns
       /\ \E opened \in BOOLEAN :
            /\ streaming' =
                 IF opened
                 THEN [open |-> TRUE, conversation_id |-> conversation_id,
                       messages |-> messages, full_response |-> 0]
                 ELSE NoStream
            /\ response' = [NoResponse EXCEPT
                              !.op = "stream",
                              !.conversation_id = conversation_id,
                              !.message = message,
                              !.content = IF opened THEN "opened" ELSE "error",
                              !.entries = working_memory,
                              !.system = AgentRunner_build_system_prompt(working_memory)]
       /\ UNCHANGED <<deployments, containers, call, last, working_memory,
                      conversations, compiler>>

\* AgentRunner.stream, lines 503-505: one text is added to full_response and
\* yielded to the websocket handler of server.py (lines 364-369), which sends
\* it; other requests are served while it sends
StreamChunk ==
    /\ streaming.open
    /\ streaming.full_response < Len(text_stream)
    /\ streaming' = [streaming EXCEPT !.full_response = @ + 1]
    /\ response' = [NoResponse EXCEPT
                      !.op = "chunk",
                      !.content = text_stream[streaming.full_response + 1]]
    /\ UNCHANGED <<deployments, containers, call, last, working_memory,
                   conversations, compiler>>

\* AgentRunner.stream, lines 507-510: the stream is over and the messages
\* taken at the start, with the whole answer, become the history
StreamEnd ==
    /\ streaming.open
    /\ streaming.full_response = Len(text_stream)
    /\ conversations' =
         [id \in DOMAIN conversations \cup {streaming.conversation_id} |->
            IF id = streaming.conversation_id
            THEN Append(streaming.messages,
                        [role |-> "assistant",
                         content |-> FullResponse(streaming.full_response)])
            ELSE conversations[id]]
    /\ streaming' = NoStream
    /\ response' = [NoResponse EXCEPT !.op = "done"]
    /\ UNCHANGED <<deployments, containers, call, last, working_memory,
                   compiler>>

\* websocket_chat of server.py, lines 364-376: the client is gone when a text
\* is sent; the generator is left where it was and nothing is stored
StreamDisconnect ==
    /\ streaming.open
    /\ streaming.full_response > 0
    /\ streaming' = NoStream
    /\ response' = [NoResponse EXCEPT !.op = "disconnect"]
    /\ UNCHANGED <<deployments, containers, call, last, working_memory,
                   conversations, compiler>>

NextMemory ==
    \/ \E name \in Names \cup {NULL, ""} : \E content \in Contents :
          InjectContext(name, content)
    \/ ClearWorkingMemory
    \/ GetWorkingMemory
    \/ \E conversation_id \in ConversationIds : \E message \in Messages :
          RuntimeChat(conversation_id, message)
    \/ \E conversation_id \in ConversationIds : \E message \in Messages :
          StreamStart(conversation_id, message)
    \/ StreamChunk
    \/ StreamEnd
    \/ StreamDisconnect

\* the instance in the container of a deployment that is RUNNING
SpecMemory == InitWs /\ [][NextMemory]_vars

\* ------------------------------------------------- DockerService, called alone
\* DockerService.__init__, lines 22-28: the client is made and the engine is
\* pinged; a DockerException is raised again as RuntimeError
docker_service == {"ok", "RuntimeError"}

\* the operations of DockerService that fail
Operations ==
    {"__init__", "build_image", "create_container", "stop_container",
     "remove_container", "get_container_status"}

\* what the operation on container / deployment / agent id surfaces to its
\* caller, with the engine it leaves
Surfaces(operation, id) ==
    IF operation = "__init__"
    THEN {[result |-> r, containers |-> containers] : r \in docker_service}
    ELSE IF operation = "build_image"
    THEN {[result |-> r.result, containers |-> containers] : r \in build_image(id)}
    ELSE IF operation = "create_container"
    THEN {[result |-> r.result, containers |-> r.containers] :
             r \in create_container(id)}
    ELSE IF operation = "stop_container"
    THEN stop_container(id)
    ELSE IF operation = "remove_container"
    THEN remove_container(id)
    ELSE {[result |-> r.result, containers |-> containers] :
             r \in get_container_status(id)}

\* any engine: each container missing, running or stopped
InitAdapter ==
    /\ deployments = <<>>
    /\ containers \in [DeploymentIds -> {"absent", "running", "exited"}]
    /\ call = [w \in Workers |-> IdleCall]
    /\ last = IdleCall
    /\ InitRuntime
    /\ InitCompiler

\* one operation of DockerService, called on its own
AdapterCall(operation, id) ==
    /\ \E r \in Surfaces(operation, id) :
         /\ containers' = r.containers
         /\ last' = Done([IdleCall EXCEPT !.op = operation, !.dep = id,
                                          !.adapter_calls = 1,
                                          !.not_found = (containers[id] = "absent")],
                         r.result, NULL)
    /\ UNCHANGED <<deployments, call, runtime, compiler>>

NextAdapter ==
    \E operation \in Operations : \E id \in DeploymentIds :
        AdapterCall(operation, id)

SpecAdapter == InitAdapter /\ [][NextAdapter]_vars

\* ------------------------------------------------------------ ConfigBuilder
\* Text is a sequence of tokens: a literal of the code is one token, the
\* separator of "\n".join is the token "\n", and the i-th character of a
\* stored content is the token ToString(i).
MaxComponents == 2
MaxMemoryLength == 4000

SKILL == "skill"
MCP_TOOL == "mcp_tool"
MEMORY == "memory"

\* a stored content of n characters
Content(n) == [i \in 1..n |-> ToString(i)]

Component(type, name, description, content, config) ==
    [type |-> type, name |-> name, description |-> description,
     content |-> content, config |-> config]

\* components a version can hold: skills with and without a description,
\* memory items of lengths around the limit, tools with an embedded tool list,
\* with a parameter schema, with the empty config that the column defaults to,
\* and with a config stored as a JSON array (the column is JSONB: any JSON
\* value; an array is written here as a record with the one field json_array)
Lengths == {0, 2, MaxMemoryLength, MaxMemoryLength + 1}

Stored ==
    {Component(SKILL, "plan", <<"plans the work">>, Content(2), <<>>),
     Component(SKILL, "review", <<>>, Content(1), <<>>),
     Component(MCP_TOOL, "search", <<>>, <<>>,
               [tools |-> <<[name |-> "find", description |-> <<"finds">>,
                             input_schema |-> [type |-> "object",
                                               properties |-> <<"path">>]]>>]),
     Component(MCP_TOOL, "fetch", <<>>, <<>>,
               [input_schema |-> [type |-> "object", properties |-> <<"url">>]]),
     Component(MCP_TOOL, "shell", <<"runs commands">>, <<>>, <<>>),
     Component(MCP_TOOL, "legacy", <<>>, <<>>, [json_array |-> <<"npx">>])}
    \cup {Component(MEMORY, name, <<>>, Content(n), <<>>) :
             name \in {"notes", "CLAUDE.md"}, n \in Lengths}

\* "\n".join(sections)
RECURSIVE Join(_)
Join(sections) ==
    IF sections = <<>> THEN <<>>
    ELSE IF Len(sections) = 1 THEN sections[1]
    ELSE sections[1] \o <<"\n">> \o Join(Tail(sections))

\* the limit applied to contents that have reached it, not only exceeded it
TruncatedFromLimit(content) ==
    IF Len(content) >= MaxMemoryLength
    THEN SubSeq(content, 1, MaxMemoryLength) \o <<"\n\n[Content truncated...]">>
    ELSE content

\* _build_system_prompt, lines 108-110
Truncated(content) ==
    IF Len(content) > MaxMemoryLength
    THEN SubSeq(content, 1, MaxMemoryLength) \o <<"\n\n[Content truncated...]">>
    ELSE content

\* _build_system_prompt, lines 87-94: the sections of the skills
RECURSIVE SkillSections(_)
SkillSections(skills) ==
    IF skills = <<>> THEN <<>>
    ELSE LET skill == skills[1] IN
         <<(<<"## ">> \o <<skill.name>>)>>
         \o (IF skill.description # <<>>
             THEN <<(<<"*">> \o skill.description \o <<"*">>), <<>>>>
             ELSE <<>>)
         \o (IF skill.content # <<>> THEN <<skill.content>> ELSE <<>>)
         \o <<(<<>>)>>
         \o SkillSections(Tail(skills))

\* the characters of a name in upper case
Upper(name) == IF name \in {"CLAUDE.md", "claude.md"} THEN "CLAUDE.MD" ELSE name

\* _build_system_prompt, lines 101-105: the title of a memory section
Heading(name) ==
    IF Upper(name) = "CLAUDE.MD" THEN <<"## Project Context">>
    ELSE <<"## ">> \o <<name>>

\* _build_system_prompt, lines 100-112: the sections of the memory items
RECURSIVE MemorySections(_)
MemorySections(memory) ==
    IF memory = <<>> THEN <<>>
    ELSE LET mem == memory[1] IN
         <<Heading(mem.name)>>
         \o (IF mem.content # <<>> THEN <<Truncated(mem.content)>> ELSE <<>>)
         \o <<(<<>>)>>
         \o MemorySections(Tail(memory))

\* _build_system_prompt, lines 77-114
build_system_prompt(skills, memory) ==
    Join(<<(<<"You are an AI agent with specialized capabilities.">>), <<>>>>
         \o (IF skills # <<>>
             THEN <<(<<"# Your Skills">>), <<>>>> \o SkillSections(skills)
             ELSE <<>>)
         \o (IF memory # <<>>
             THEN <<(<<"# Background Knowledge">>), <<>>>> \o MemorySections(memory)
             ELSE <<>>))

\* _build_tools, lines 127-145: an embedded tool list is taken as it is, else
\* one definition is made from the component; a component without a config
\* gives nothing
RECURSIVE build_tools(_)
build_tools(mcp_tools) ==
    IF mcp_tools = <<>> THEN <<>>
    ELSE LET tool == mcp_tools[1]
             config == tool.config
         IN (IF config = <<>> THEN <<>>
             ELSE IF "tools" \in DOMAIN config THEN config.tools
             ELSE <<[name |-> tool.name,
                     description |-> IF tool.description # <<>>
                                     THEN tool.description
                                     ELSE <<"MCP tool: ", tool.name>>,
                     input_schema |-> IF "input_schema" \in DOMAIN config
                                      THEN config.input_schema
                                      ELSE [type |-> "object",
                                            properties |-> <<>>]]>>)
            \o build_tools(Tail(mcp_tools))

\* the config is a JSON object
IsMapping(config) == "json_array" \notin DOMAIN config

\* _build_tools, lines 128-141: a config that is not empty and no mapping has
\* no get(): the loop raises
ToolsRaise(mcp_tools) ==
    \E i \in DOMAIN mcp_tools :
        mcp_tools[i].config # <<>> /\ ~IsMapping(mcp_tools[i].config)

\* _build_memory, lines 158-165
build_memory(memory) ==
    [i \in DOMAIN memory |->
        [key |-> memory[i].name, content |-> memory[i].content,
         description |-> memory[i].description]]

\* the rows of one type, in the order the query returned them
OfType(rows, type) == SelectSeq(rows, LAMBDA c : c.type = type)

\* build_config, lines 41-61, on the rows the query returned
Config(rows) ==
    IF ToolsRaise(OfType(rows, MCP_TOOL))
    THEN [NoConfig EXCEPT !.raised = "AttributeError"]
    ELSE
    [system_prompt |-> build_system_prompt(OfType(rows, SKILL), OfType(rows, MEMORY)),
     tools |-> build_tools(OfType(rows, MCP_TOOL)),
     memory |-> build_memory(OfType(rows, MEMORY)),
     skills |-> [i \in DOMAIN OfType(rows, SKILL) |-> OfType(rows, SKILL)[i].name],
     model |-> "claude-sonnet-4-5-20250929",
     raised |-> NULL]

\* the query of build_config, lines 35-39: the rows of the version, with no
\* ORDER BY: the database returns them in the order it finds them
Query(rows) ==
    {[i \in DOMAIN rows |-> rows[p[i]]] : p \in Permutations(DOMAIN rows)}

\* build_config(version_id), lines 35-61
Compile ==
    /\ \E rows \in Query(components) :
         compiled' = [first |-> IF compiled.rows = <<>> /\ compiled.first = NoConfig
                                THEN Config(rows) ELSE compiled.first,
                      latest |-> Config(rows),
                      rows |-> rows]
    /\ UNCHANGED <<deployments, containers, call, last, runtime, components>>

\* the stored components of a version: at most MaxComponents, of distinct names
InitCompile ==
    /\ deployments = <<>>
    /\ containers = [c \in DeploymentIds |-> "absent"]
    /\ call = [w \in Workers |-> IdleCall]
    /\ last = IdleCall
    /\ InitRuntime
    /\ components \in UNION {{rows \in [1..n -> Stored] :
                                \A i, j \in 1..n : i # j => rows[i].name # rows[j].name} :
                             n \in 0..MaxComponents}
    /\ compiled = NotCompiled

NextCompile == Compile

SpecCompile == InitCompile /\ [][NextCompile]_vars

\* ------------------------------------- the exception handler of deploy()
MaxTextLength == 32

\* the exceptions deploy() catches, each with the text it carries
RECURSIVE Text(_)
Text(n) == IF n = 0 THEN "" ELSE "e" \o Text(n - 1)
Exceptions ==
    [kind : {"TypeError", "BuildError", "APIError", "DockerException"},
     text : {Text(n) : n \in 0..MaxTextLength}]

\* str(e) of line 100: the whole text of the exception
str(e) == e.text

\* a record that deploy() has created and is building or starting
InitExcept ==
    /\ deployments \in {<<[AgentDeployment(1) EXCEPT !.status = s]>> :
                           s \in {BUILDING, STARTING}}
    /\ containers = [c \in DeploymentIds |-> "absent"]
    /\ call = [w \in Workers |-> IdleCall]
    /\ last = IdleCall
    /\ InitRuntime
    /\ InitCompiler

\* deploy(), lines 97-102: whatever was raised in lines 66-95 is caught, the
\* record is marked failed with str(e) and committed, and e is raised again
DeployExcept(d, e) ==
    /\ deployments[d].status \in {BUILDING, STARTING}
    /\ deployments' = Failed(d, str(e))
    /\ last' = Done([IdleCall EXCEPT !.op = "deploy", !.dep = d,
                                     !.agent_id = deployments[d].agent_id],
                    e.kind, NULL)
    /\ UNCHANGED <<containers, call, runtime, compiler>>

NextExcept ==
    \E d \in DOMAIN deployments : \E e \in Exceptions : DeployExcept(d, e)

SpecExcept == InitExcept /\ [][NextExcept]_vars

\* ------------------------------------------------------------- properties
Range(s) == {s[i] : i \in DOMAIN s}

Terminal == {STOPPED, FAILED}
Active == {RUNNING, BUILDING, STARTING, STOPPING}

\* the edges of the deployment state machine
Edges ==
    {<<PENDING, BUILDING>>, <<BUILDING, STARTING>>, <<STARTING, RUNNING>>,
     <<RUNNING, STOPPING>>, <<STOPPING, STOPPED>>,
     <<BUILDING, FAILED>>, <<STARTING, FAILED>>, <<RUNNING, FAILED>>,
     <<STOPPING, FAILED>>}

RunningIn(table, agent_id) ==
    {d \in DOMAIN table : table[d].agent_id = agent_id /\ table[d].status = RUNNING}

\* C1: once the persisted status of a deployment is FAILED or STOPPED, no
\* later write changes it, also when calls on the same deployment overlap.
C1_TerminalIsFinal ==
    [][\A d \in DOMAIN deployments :
          deployments[d].status \in Terminal
              => deployments'[d].status = deployments[d].status]_vars

\* C2: every change of a persisted status is one of the listed edges.
C2_OnlyListedEdges ==
    [][\A d \in DOMAIN deployments :
          deployments'[d].status # deployments[d].status
              => <<deployments[d].status, deployments'[d].status>> \in Edges]_vars

\* C3: with calls that do not overlap, each agent has at most one deployment
\* whose status is RUNNING, BUILDING, STARTING or STOPPING.
C3_AtMostOneActive ==
    \A a \in Agents :
        Cardinality({d \in DOMAIN deployments :
            deployments[d].agent_id = a /\ deployments[d].status \in Active}) <= 1

\* a deploy() call that passed the agent check has ended, as `last`
DeployEnded == last.op = "deploy" /\ last.agent_id \in Agents

\* C4: when a deploy() call has completed and no other deploy() for its agent
\* overlapped it, at most one deployment of the agent is RUNNING, also when
\* the engine failed while a prior deployment was being stopped.
C4_AtMostOneRunningAfterDeploy ==
    (DeployEnded /\ ~last.overlapped)
        => Cardinality(RunningIn(deployments, last.agent_id)) <= 1

\* a deploy() that found a RUNNING deployment, met an engine failure while
\* stopping it, and completed with no overlapping deploy()
C4_Witness ==
    /\ DeployEnded
    /\ ~last.overlapped
    /\ last.running_deployments # <<>>
    /\ last.adapter_failed # {}
    /\ last.outcome = "returned"
    /\ RunningIn(deployments, last.agent_id) = {last.dep}

\* C5: two deployments of one agent are RUNNING together only through
\* overlapping deploy() calls: when a deploy() returns and another deployment
\* of its agent is RUNNING, that one was not RUNNING when this call ran its
\* stop-existing query, and another deploy() for the agent overlapped the call.
C5_TwoRunningOnlyByOverlap ==
    (DeployEnded /\ last.outcome = "returned")
        => \A d \in RunningIn(deployments, last.agent_id) \ {last.dep} :
              /\ d \notin Range(last.running_deployments)
              /\ last.overlapped

\* two deployments of one agent RUNNING at the same time
C5_Witness ==
    \E d1, d2 \in DOMAIN deployments :
        /\ d1 # d2
        /\ deployments[d1].agent_id = deployments[d2].agent_id
        /\ deployments[d1].status = RUNNING
        /\ deployments[d2].status = RUNNING

\* the call of w ends in this step
Ends(w) == InProgress(w) /\ call'[w].pc = "idle"

\* C6: a deploy() in which build_config, build_image or create_container
\* raises ends with its deployment FAILED, an error message recorded and the
\* exception passed to the caller; it returns normally only with its
\* deployment RUNNING.
C6_DeployFailsLoudly ==
    [][\A w \in Workers :
          (call[w].op = "deploy" /\ call[w].dep # NONE /\ Ends(w))
              => LET d == deployments'[call[w].dep] IN
                 /\ last'.dep = call[w].dep
                 /\ last'.outcome = "returned" => d.status = RUNNING
                 /\ last'.outcome # "returned" =>
                       /\ last'.outcome \in {"TypeError", "APIError", "DockerException"}
                       /\ d.status = FAILED
                       /\ d.error_message = last'.outcome]_vars

\* a deploy() that raised out of create_container, its deployment FAILED
C6_Witness ==
    /\ DeployEnded
    /\ last.outcome = "DockerException"
    /\ last.detail = "create_container"
    /\ deployments[last.dep].status = FAILED
    /\ deployments[last.dep].error_message # NULL

DeploySteps ==
    {<<"create", "building">>, <<"building", "compile">>,
     <<"compile", "build_image">>, <<"build_image", "starting">>,
     <<"starting", "create_container">>}

\* C7: in a deploy() that passed the agent check the new deployment is
\* persisted as PENDING before compile, build_image or create_container
\* begins; the status is BUILDING throughout compile and build_image and
\* STARTING throughout create_container; the steps follow one another in the
\* order compile, build_image, create_container, RUNNING.
C7_StepsInOrder ==
    /\ [](\A w \in Workers :
            LET c == call[w] IN
            c.op = "deploy" =>
              /\ c.pc \in {"load", "mark", "stop_container", "remove_container",
                           "finish", "force", "create"} => c.dep = NONE
              /\ c.pc \in {"building", "compile", "build_image", "starting",
                           "create_container"} => c.dep \in DOMAIN deployments
              /\ c.pc = "building" => deployments[c.dep].status = PENDING
              /\ c.pc \in {"compile", "build_image"} =>
                    /\ deployments[c.dep].status = BUILDING
                    /\ deployments[c.dep].image_id = NONE
                    /\ deployments[c.dep].container_id = NONE
              /\ c.pc = "starting" =>
                    /\ deployments[c.dep].status = BUILDING
                    /\ deployments[c.dep].image_id # NONE
              /\ c.pc = "create_container" =>
                    /\ deployments[c.dep].status = STARTING
                    /\ deployments[c.dep].image_id # NONE
                    /\ deployments[c.dep].container_id = NONE)
    /\ [][\A w \in Workers :
            LET c == call[w] IN
            (c.op = "deploy" /\ c.dep # NONE /\ call'[w].pc # c.pc) =>
              \/ /\ call'[w].op = "deploy"
                 /\ call'[w].dep = c.dep
                 /\ <<c.pc, call'[w].pc>> \in DeploySteps
              \/ /\ Ends(w)
                 /\ c.pc \in {"compile", "build_image", "create_container"}
                 /\ (deployments'[c.dep].status = RUNNING) = (c.pc = "create_container"
                                                   /\ last'.outcome = "returned")]_vars

\* a deploy() inside create_container: its deployment STARTING, the image built
C7_Witness ==
    \E w \in Workers :
        /\ call[w].op = "deploy"
        /\ call[w].pc = "create_container"
        /\ deployments[call[w].dep].status = STARTING
        /\ deployments[call[w].dep].image_id # NONE

C9_StopOfGoneContainer ==
    [][\A w \in Workers :
          (call[w].op = "stop" /\ Ends(w) /\ last'.not_found) =>
              /\ last'.outcome = "returned"
              /\ last'.dep = call[w].dep
              /\ deployments'[call[w].dep].status = STOPPED
              /\ deployments'[call[w].dep].stopped_at = utcnow]_vars

\* a stop() that returned after remove_container reported NotFound
C9_Witness ==
    /\ last.op = "stop"
    /\ last.not_found
    /\ last.adapter_calls = 2
    /\ last.outcome = "returned"
    /\ deployments[last.dep].status = STOPPED
    /\ deployments[last.dep].stopped_at = utcnow

\* C10: stop_all_deployments over N RUNNING deployments, k of them with a
\* failing stop_container or remove_container call, attempts all N, leaves
\* the other N-k STOPPED and returns stopped_count = N-k, failed_count = k
\* and k error entries, one for each deployment whose stop failed.
C10_StopAllReportsEveryFailure ==
    last.op = "stopAll" =>
        LET N == Len(last.running_deployments)
            k == Cardinality(last.adapter_failed)
        IN /\ last.outcome = "returned"
           /\ last.stopped_count = N - k
           /\ last.failed_count = k
           /\ Len(last.errors) = k
           /\ {last.errors[i].deployment_id : i \in DOMAIN last.errors}
                 = last.adapter_failed
           /\ last.adapter_failed \subseteq Range(last.running_deployments)
           /\ \A d \in Range(last.running_deployments) \ last.adapter_failed :
                 deployments[d].status = STOPPED

\* a stop-all over two RUNNING deployments of which the first failed
C10_Witness ==
    /\ last.op = "stopAll"
    /\ Len(last.running_deployments) = 2
    /\ last.adapter_failed = {last.running_deployments[1]}
    /\ last.stopped_count = 1
    /\ last.failed_count = 1
    /\ deployments[last.running_deployments[2]].status = STOPPED

\* a step of a get_status call: its start, or its probe
GetStatusActs ==
    \/ \E w \in Workers : call[w].op = "getStatus" /\ call'[w] # call[w]
    \/ \E w \in Workers : Free(w) /\ call'[w].op = "getStatus"
    \/ call' = call /\ last' # last /\ last'.op = "getStatus"

\* C11: get_status changes no field of any persisted deployment and nothing
\* in the engine; it asks the engine only when the persisted status it read
\* is RUNNING; when the engine reports the container missing it returns
\* normally, with the status RUNNING.
C11_GetStatusReadsOnly ==
    [][/\ GetStatusActs =>
             /\ deployments' = deployments
             /\ containers' = containers
       /\ \A w \in Workers :
             (Free(w) /\ call'[w].op = "getStatus") =>
                 /\ deployments[call'[w].dep].status = RUNNING
                 /\ call'[w].result.status = RUNNING
       /\ (last' # last /\ last'.op = "getStatus") =>
             /\ last'.adapter_calls > 0 => last'.result.status = RUNNING
             /\ last'.not_found =>
                   /\ last'.outcome = "returned"
                   /\ last'.result.status = RUNNING
                   /\ last'.result.container = "not_found"]_vars

\* a get_status that found the container missing and returned RUNNING, the
\* record still RUNNING afterwards
C11_Witness ==
    /\ last.op = "getStatus"
    /\ last.not_found
    /\ last.outcome = "returned"
    /\ last.result.status = RUNNING
    /\ deployments[last.dep].status = RUNNING
    /\ containers[deployments[last.dep].container_id] = "absent"

\* C12: a chat on a deployment whose status is not RUNNING, or that has no
\* port, is refused as not running, and no request is sent to any container.
C12_ChatRefusedWithoutNetwork ==
    [][/\ \A w \in Workers :
             (Free(w) /\ call'[w].op = "chat") =>
                 /\ deployments[call'[w].dep].status = RUNNING
                 /\ deployments[call'[w].dep].port # NONE
       /\ (call' = call /\ last' # last /\ last'.op = "chat"
              /\ last'.dep \in DOMAIN deployments) =>
             /\ deployments[last'.dep].status # RUNNING
                   \/ deployments[last'.dep].port = NONE
             /\ last'.outcome = "HTTPException"
             /\ last'.status_code = 400
             /\ last'.detail = "Deployment is not running"
             /\ last'.result.status = deployments[last'.dep].status
             /\ last'.network_calls = 0]_vars

\* a chat refused on a STOPPED deployment that still has its port
C12_Witness ==
    /\ last.op = "chat"
    /\ last.status_code = 400
    /\ last.network_calls = 0
    /\ deployments[last.dep].status = STOPPED
    /\ deployments[last.dep].port # NONE

\* the session of w is forwarding
Relaying(w) == call[w].pc = "gather"

\* one side of the session of w has closed or failed
SideClosed(w) ==
    \/ call[w].ws.websocket = "closed"
    \/ call[w].ws.container_ws = "closed"
    \/ call[w].ws.forward_to_container = "raised"

\* C13: in a streaming session, once either channel has closed or failed,
\* both forwarding loops end and the handler completes, with no further
\* message from the side that is still open.
C13_SessionEnds ==
    \A w \in Workers : (Relaying(w) /\ SideClosed(w)) ~> ~Relaying(w)

\* the deploy() of w is inside build_image or create_container
InsideAdapter(w) ==
    call[w].op = "deploy" /\ call[w].pc \in {"build_image", "create_container"}

\* a step of the server in which the call of w stays where it is and another
\* request starts, goes on or ends
OtherRuns(w) ==
    /\ NextLoop
    /\ call'[w] = call[w]
    /\ <<call, last, deployments>>' # <<call, last, deployments>>

\* C14: an engine call is a suspension point: while a deploy() is inside
\* build_image or create_container, the server can start and run requests
\* for other agents before the engine call returns.
C14_AdapterCallSuspends ==
    \A w \in Workers : InsideAdapter(w) => ENABLED OtherRuns(w)

\* the call of w is in progress and has written record d: a deploy() that
\* created it, or a stop() (called by a handler or from a loop) that has
\* written STOPPING to it
HasWritten(w, d) ==
    LET c == call[w] IN
    \/ /\ c.op = "deploy"
       /\ c.dep = d
       /\ c.pc \in {"building", "compile", "build_image", "starting",
                    "create_container"}
    \/ /\ c.pc \in {"stop_container", "remove_container", "finish"}
       /\ Target(c) = d

\* C15: no two orchestrator calls in progress at the same time both write
\* the same deployment record.
C15_SingleWriter ==
    \A d \in DOMAIN deployments :
        Cardinality({w \in Workers : HasWritten(w, d)}) <= 1

\* the contents held under a name
Entry(wm, name) == {wm[i].content : i \in {k \in DOMAIN wm : wm[k].name = name}}

\* C16: after any sequence of injections and clears, no two working-memory
\* entries of the running instance have the same name, and the entry of a
\* name holds the content of the most recent injection under that name: an
\* injection leaves exactly its content under its name and every other name
\* as it was, a clear leaves nothing, and no other request changes an entry.
C16_LastWriteWinsPerName ==
    /\ [](\A i, j \in DOMAIN working_memory :
             i # j => working_memory[i].name # working_memory[j].name)
    /\ [][/\ response'.op = "inject_context" =>
                /\ Entry(working_memory', response'.name) = {response'.content}
                /\ \A n \in (Names \cup GeneratedNames) \ {response'.name} :
                      Entry(working_memory', n) = Entry(working_memory, n)
          /\ response'.op = "clear_working_memory" => working_memory' = <<>>
          /\ response'.op \in {"chat", "get_working_memory"} =>
                working_memory' = working_memory]_<<working_memory, response>>

\* an injection that replaced the entry of its name, another entry kept
C16_Witness ==
    /\ response.op = "inject_context"
    /\ response.replaced
    /\ Len(working_memory) = 2
    /\ working_memory[2] = [name |-> response.name, content |-> response.content]
    /\ working_memory[1].name # response.name

\* the three kinds of failure of the adapter
FailureKinds == {"NotFound", "EngineUnavailable", "OperationFailed"}

\* C17: every failure that an operation of the adapter (construction,
\* build_image, create_container, stop_container, remove_container,
\* get_container_status) surfaces to its caller is a NotFound, an
\* EngineUnavailable or an OperationFailed.
C17_ThreeFailureKinds ==
    (last.op \in Operations /\ last.outcome # "ok") => last.outcome \in FailureKinds

\* C18: stop_container and remove_container of the adapter complete without
\* an error when the container they are given does not exist in the engine.
C18_MissingContainerIsSuccess ==
    (last.op \in {"stop_container", "remove_container"} /\ last.not_found)
        => last.outcome = "ok"

\* C19: build_config is deterministic: two calls for the same version with
\* the same stored components give the same configuration (system prompt,
\* tools, memory, model), whatever happened between them.
C19_CompileDeterministic ==
    compiled.latest = compiled.first

\* where the section titled h starts in the prompt
SectionAt(prompt, h) ==
    CHOOSE i \in DOMAIN prompt :
        /\ i + Len(h) - 1 <= Len(prompt)
        /\ SubSeq(prompt, i, i + Len(h) - 1) = h

\* the section titled h has exactly this body: the body follows the title
\* line and ends at the next line break, or with the prompt
HasBody(prompt, h, body) ==
    LET b == SectionAt(prompt, h) + Len(h) + 1 IN
    /\ \E i \in DOMAIN prompt :
          i + Len(h) - 1 <= Len(prompt) /\ SubSeq(prompt, i, i + Len(h) - 1) = h
    /\ b + Len(body) - 1 <= Len(prompt)
    /\ SubSeq(prompt, b, b + Len(body) - 1) = body
    /\ b + Len(body) <= Len(prompt) => prompt[b + Len(body)] = "\n"

\* C20: for every memory component, the body of its section in the compiled
\* system prompt is its content unchanged when the content has at most 4000
\* characters, and otherwise its first 4000 characters followed by the
\* truncation marker; a content of exactly 4000 characters is not truncated.
C20_MemoryBodyTruncatedOver4000 ==
    \A i \in DOMAIN compiled.rows :
        LET mem == compiled.rows[i] IN
        (mem.type = MEMORY /\ compiled.latest.raised = NULL) =>
            HasBody(compiled.latest.system_prompt, Heading(mem.name),
                    IF Len(mem.content) <= 4000 THEN mem.content
                    ELSE SubSeq(mem.content, 1, 4000)
                         \o <<"\n\n[Content truncated...]">>)

\* a compiled prompt with a memory item of exactly 4000 characters and one
\* of 4001: one truncation marker
C20_Witness ==
    /\ \E i, j \in DOMAIN compiled.rows :
          /\ compiled.rows[i].type = MEMORY
          /\ Len(compiled.rows[i].content) = 4000
          /\ compiled.rows[j].type = MEMORY
          /\ Len(compiled.rows[j].content) = 4001
    /\ compiled.latest.raised = NULL
    /\ Cardinality({k \in DOMAIN compiled.latest.system_prompt :
          compiled.latest.system_prompt[k] = "\n\n[Content truncated...]"}) = 1

\* the tool definitions that the tool components give, one component after
\* the other: the embedded list as it is, else one definition with the name,
\* the description and the declared schema or the empty-object schema
RECURSIVE GivenBy(_, _)
GivenBy(tools, mcp_tools) ==
    IF mcp_tools = <<>> THEN tools = <<>>
    ELSE LET tool == mcp_tools[1]
             config == tool.config
         IN IF "tools" \in DOMAIN config
            THEN /\ Len(tools) >= Len(config.tools)
                 /\ SubSeq(tools, 1, Len(config.tools)) = config.tools
                 /\ GivenBy(SubSeq(tools, Len(config.tools) + 1, Len(tools)),
                            Tail(mcp_tools))
            ELSE /\ tools # <<>>
                 /\ tools[1].name = tool.name
                 /\ tool.description # <<>> => tools[1].description = tool.description
                 /\ tools[1].input_schema =
                       IF "input_schema" \in DOMAIN config THEN config.input_schema
                       ELSE [type |-> "object", properties |-> <<>>]
                 /\ GivenBy(Tail(tools), Tail(mcp_tools))

\* C21: build_config never fails because of the config of a tool component,
\* and its tool list is, for each tool component in input order, the embedded
\* tool list as it is, or else exactly one definition made from the component
\* (the empty-object schema when none is declared).
C21_ToolsPerComponent ==
    compiled.latest # NoConfig =>
        /\ compiled.latest.raised = NULL
        /\ GivenBy(compiled.latest.tools, OfType(compiled.rows, MCP_TOOL))

\* C22: a chat request that was forwarded to the container ends by what came
\* back: a response with a 2xx status is returned as the answer, a response
\* with any other status is raised with the container's status and its body
\* text as it was received, and a connection failure is raised as 503
C22_ForwardedOutcome ==
    (last.op = "chat" /\ last.network_calls = 1) =>
        LET r == last.answer IN
        /\ (r.kind = "response" /\ r.status \in 200..299) =>
               /\ last.outcome = "returned"
               /\ last.body = r.body
        /\ (r.kind = "response" /\ r.status \notin 200..299) =>
               /\ last.outcome = "HTTPException"
               /\ last.status_code = r.status
               /\ last.body = r.body
        /\ r.kind = "ClientError" =>
               /\ last.outcome = "HTTPException"
               /\ last.status_code = 503
               /\ last.detail = "Failed to connect to agent container"

\* the prompt is the base prompt followed by exactly the entries of wm, in
\* their order: nothing else after the base prompt when wm is empty, else
\* the heading and then name and content of each entry
UsesExactly(prompt, wm) ==
    /\ Len(prompt) >= 1
    /\ prompt[1] = BasePrompt
    /\ Len(prompt) = (IF wm = <<>> THEN 1 ELSE 2 + 2 * Len(wm))
    /\ \A i \in DOMAIN wm :
          /\ prompt[2 * i + 1] = wm[i].name
          /\ prompt[2 * i + 2] = wm[i].content

\* C23: the system prompt sent to the model by a chat turn or a stream turn
\* of the running instance is the base prompt with exactly the entries the
\* working memory holds when the turn is made, so a turn made after an
\* inject or a clear is made with the entries as they are after it
C23_PromptFromCurrentWorkingMemory ==
    [][response'.op \in {"chat", "stream"} =>
          UsesExactly(response'.system, working_memory')]_<<working_memory, response>>

\* a turn made when two entries have been injected: the prompt has both, in
\* the order of the working memory
C23_Witness ==
    /\ response.op \in {"chat", "stream"}
    /\ Len(working_memory) = 2
    /\ working_memory[1].name = "b"
    /\ working_memory[2] = [name |-> "a", content |-> "y"]
    /\ response.system = <<BasePrompt, WorkingMemoryHeading, "b", "x", "a", "y">>

\* C24: the error message persisted on a FAILED record is cut to a bounded
\* length: an exception text of the greatest length is never stored whole
C24_ErrorMessageTruncated ==
    \A d \in DOMAIN deployments :
        deployments[d].status = FAILED =>
            Len(deployments[d].error_message) < MaxTextLength

\* C25: when a deploy() that created its record ends, returning or raising,
\* the record is RUNNING or FAILED; when a stop() that found its record
\* RUNNING ends, returning or raising, the record is STOPPED or FAILED: no
\* call leaves its record PENDING, BUILDING, STARTING or STOPPING
C25_NoTransientStatusLeft ==
    [][(/\ last' # last
        /\ last'.op \in {"deploy", "stop"}
        /\ last'.dep \in DOMAIN deployments') =>
           LET status == deployments'[last'.dep].status IN
           /\ last'.op = "deploy" => status \in {RUNNING, FAILED}
           /\ (last'.op = "stop" /\ last'.outcome # "ValueError") =>
                  status \in {STOPPED, FAILED}]_vars

\* C26: the container whose handle a STOPPED record holds is not running in
\* the engine, however the engine answered the calls that stopped it
C26_StoppedMeansNotRunning ==
    \A d \in DOMAIN deployments :
        (deployments[d].status = STOPPED /\ deployments[d].container_id # NONE) =>
            containers[deployments[d].container_id] # "running"

\* C27: every container that runs in the engine has its handle on some
\* record, so a deploy() that ended with its record FAILED has left no
\* container of its own running
C27_RunningContainerIsRecorded ==
    \A container_id \in DeploymentIds :
        containers[container_id] = "running" =>
            \E d \in DOMAIN deployments :
                deployments[d].container_id = container_id

\* C28: a RUNNING record has its image handle, container handle, port and
\* start time; a STOPPED record has its stop time; a FAILED record has its
\* error message
C28_FieldsOfStatus ==
    \A d \in DOMAIN deployments :
        LET row == deployments[d] IN
        /\ row.status = RUNNING =>
              /\ row.image_id # NONE
              /\ row.container_id # NONE
              /\ row.port # NONE
              /\ row.started_at # NULL
        /\ row.status = STOPPED => row.stopped_at # NULL
        /\ row.status = FAILED => row.error_message # NULL

\* a record stopped by a later deploy() of its agent next to the RUNNING
\* record of that deploy(), while another call is in the middle of its work
C28_Witness ==
    /\ Len(deployments) = 2
    /\ deployments[1].status = STOPPED
    /\ deployments[1].stopped_at = utcnow
    /\ deployments[2].status = RUNNING
    /\ deployments[2].port = BasePort + 2
    /\ \E w \in Workers : InProgress(w)

\* C29: a deploy() creates its record only when none of the records it found
\* RUNNING is RUNNING any more; when a deploy() of a known agent that no other
\* deploy() of the agent overlapped raises with its record FAILED, no record
\* of the agent is RUNNING; and a deploy() of an unknown agent raises having
\* written nothing and called the engine for nothing
C29_PriorStoppedAndNotRestored ==
    [][/\ \A w \in Workers :
             (call[w].op = "deploy" /\ call[w].pc = "create"
                 /\ Len(deployments') > Len(deployments)
                 /\ call'[w].dep = Len(deployments')) =>
                \A i \in DOMAIN call[w].running_deployments :
                    deployments[call[w].running_deployments[i]].status # RUNNING
       /\ (last' # last /\ last'.op = "deploy") =>
             /\ (/\ last'.agent_id \in Agents
                 /\ ~last'.overlapped
                 /\ last'.outcome # "returned"
                 /\ last'.dep \in DOMAIN deployments'
                 /\ deployments'[last'.dep].status = FAILED) =>
                    RunningIn(deployments', last'.agent_id) = {}
             /\ last'.agent_id \notin Agents =>
                    /\ last'.outcome = "ValueError"
                    /\ last'.adapter_calls = 0
                    /\ deployments' = deployments
                    /\ containers' = containers]_vars

\* a deploy() that nothing overlapped has stopped the RUNNING record of its
\* agent, created its own record and failed: the agent has no RUNNING record
C29_Witness ==
    /\ DeployEnded
    /\ ~last.overlapped
    /\ last.outcome # "returned"
    /\ last.running_deployments = <<1>>
    /\ last.dep = 2
    /\ deployments[1].status = STOPPED
    /\ deployments[2].status = FAILED
    /\ RunningIn(deployments, last.agent_id) = {}

\* the history of a conversation: empty when the instance holds none for it
History(histories, id) ==
    IF id \in DOMAIN histories THEN histories[id] ELSE <<>>

====
